---- MODULE Spec2Model ----
(***************************************************************************)
(* A model of the PostgreSQL node of node-drop/postgres:                   *)
(*   src/credentials/postgresDb.credentials.js                             *)
(* PostgresNode.execute is modelled as a process with one control point    *)
(* per await that matters (credential lookup, the item loop, the query in  *)
(* flight, the catch handler of an item, the finally block).  SQL text is  *)
(* a sequence of string pieces whose concatenation is the statement text;  *)
(* a comma separated parameter string is a sequence of characters, split   *)
(* and trimmed as String.prototype.split and trim do.  JavaScript values   *)
(* that are not text (null, undefined, numbers, booleans) are written by   *)
(* their literal notation.                                                 *)
(***************************************************************************)
EXTENDS Integers, Sequences, FiniteSets, TLC

VARIABLES pc, settings, items, continueOnFail, credentials, operation,
          itemsToProcess, i, results, cur, queryText, queryParams, err,
          dispatched, failed, poolCreated, poolEnded, returned, thrown,
          ssl, test, load

vars == <<pc, settings, items, continueOnFail, credentials, operation,
          itemsToProcess, i, results, cur, queryText, queryParams, err,
          dispatched, failed, poolCreated, poolEnded, returned, thrown,
          ssl, test, load>>

\* The variables of the execute runs.
executeVars ==
    <<pc, settings, items, continueOnFail, credentials, operation,
      itemsToProcess, i, results, cur, queryText, queryParams, err,
      dispatched, failed, poolCreated, poolEnded, returned, thrown>>

\* ------------------------------------------------------------ bounds
\* Largest number of calls of an option loader in a row.
MaxCalls == 2
\* Largest number of input items of a run.
MaxItems == 3
\* Longest comma separated parameter string, in characters.
MaxStrLen == 2
\* Number of execute invocations the model holds.
NumRuns == 2
\* Largest placeholder index looked for in a statement text.
MaxPlaceholder == 4

Runs == 1..NumRuns

\* ------------------------------------------------------------ input domains
Range(s) == {s[j] : j \in DOMAIN s}

\* Characters of a comma separated parameter string.
Chars == {"7", ",", " "}

ParamStrings == UNION {[1..k -> Chars] : k \in 0..MaxStrLen}

\* Caller supplied WHERE text, as pieces; <<>> is the empty text.
WhereTexts ==
    { <<>>,
      <<"id", "=", "$1">>,
      <<"id", "=", "$2">>,
      <<"a", "=", "$1", "AND", "b", "=", "$2">>,
      <<"id", "=", "$3">> }

\* Caller supplied raw query text, as pieces.
QueryTexts ==
    { <<>>,
      <<"SELECT", "1">>,
      <<"SELECT", "*", "FROM", "users", "WHERE", "status", "=", "$1">> }

\* Caller supplied ORDER BY text, as pieces.
OrderTexts == { <<>>, <<"created_at", "DESC">>, <<"$2">> }

ColumnTexts == { "", "id,name" }

\* Values of the limit parameter: absent, numbers and a string.
LimitValues == {"undefined", "0", "-5", "10", "2.5", "abc"}

ColNames == {"name", "email"}

\* Column values: the empty string, null, undefined, 0, false and a text.
ColValues == {"", "null", "undefined", "0", "false", "Jane"}

\* Values a JSON text can hold (JSON has no undefined).
JsonValues == ColValues \ {"undefined"}

EntrySeqs(values) ==
    UNION { { s \in [1..k -> [k : ColNames, v : values]] :
                \A a, b \in 1..k : a # b => s[a].k # s[b].k } :
            k \in 0..Cardinality(ColNames) }

\* What getNodeParameter("columnsMap", i) can return: an object, a JSON
\* text of an object, the JSON text null, a text that is not JSON, or
\* nothing.
ColumnsMaps ==
    { [kind |-> "object", entries |-> e] : e \in EntrySeqs(ColValues) }
      \cup { [kind |-> "json", entries |-> e] : e \in EntrySeqs(JsonValues) }
      \cup { [kind |-> "badjson", entries |-> <<>>],
             [kind |-> "jsonnull", entries |-> <<>>],
             [kind |-> "undefined", entries |-> <<>>] }

OperationTags == {"executeQuery", "select", "insert", "update", "delete", "bogus"}

\* Outcomes of getCredentials: it throws, or returns null, or a record
\* without host, or a usable record.
CredentialOutcomes == {"throws", "null", "nohost", "ok"}

\* settings.continueOnFail: not set, true or false.
SettingValues == {"unset", "true", "false"}

NoInput ==
    [ query |-> <<>>, queryParams |-> <<>>, table |-> "users", columns |-> "",
      where |-> <<>>, whereParams |-> <<>>, returnAll |-> TRUE,
      limit |-> "undefined", orderBy |-> <<>>,
      columnsMap |-> [kind |-> "undefined", entries |-> <<>>],
      returnFields |-> "" ]

\* The parameters an operation reads for one item, each drawn from the
\* domain d gives for it.
InputsOver(op, d) ==
    CASE op = "executeQuery" ->
           { [NoInput EXCEPT !.query = q, !.queryParams = s] :
               q \in d.queries, s \in d.params }
      [] op = "select" ->
           { [NoInput EXCEPT !.columns = c, !.where = w, !.whereParams = s,
                             !.returnAll = FALSE, !.limit = l, !.orderBy = o] :
               c \in d.columns, w \in d.wheres, s \in d.params,
               l \in d.limits, o \in d.orders }
           \cup
           { [NoInput EXCEPT !.columns = c, !.where = w, !.whereParams = s,
                             !.returnAll = TRUE, !.orderBy = o] :
               c \in d.columns, w \in d.wheres, s \in d.params,
               o \in d.orders }
      [] op = "insert" ->
           { [NoInput EXCEPT !.columnsMap = m] : m \in d.maps }
      [] op = "update" ->
           { [NoInput EXCEPT !.columnsMap = m, !.where = w, !.whereParams = s] :
               m \in d.maps, w \in d.wheres, s \in d.params }
      [] op = "delete" ->
           { [NoInput EXCEPT !.where = w, !.whereParams = s] :
               w \in d.wheres, s \in d.params }
      [] OTHER -> { NoInput }

\* The whole parameter domain: what the first item of a run reads.
FirstItemDomain ==
    [ queries |-> QueryTexts, params |-> ParamStrings, columns |-> ColumnTexts,
      wheres |-> WhereTexts, limits |-> LimitValues, orders |-> OrderTexts,
      maps |-> ColumnsMaps ]

\* Representative parameters, read by the later items of a run: for each
\* operation some that build a statement and some that fail to.
LaterItemDomain ==
    [ queries |-> { <<"SELECT", "1">> },
      params |-> { <<>>, <<"7">> },
      columns |-> { "" },
      wheres |-> { <<>>, <<"id", "=", "$1">> },
      limits |-> { "0", "10" },
      orders |-> { <<>> },
      maps |-> { [kind |-> "object", entries |-> <<>>],
                 [kind |-> "object", entries |-> <<[k |-> "name", v |-> "Jane"]>>],
                 [kind |-> "badjson", entries |-> <<>>] } ]

\* The parameters item k of a run can read for operation op.
Inputs(op, k) ==
    InputsOver(op, IF k = 1 THEN FirstItemDomain ELSE LaterItemDomain)

\* ------------------------------------------------------------ text helpers
\* String.prototype.split(","): the pieces between the commas.
RECURSIVE Split(_)
Split(s) ==
    IF \A j \in 1..Len(s) : s[j] # ","
    THEN <<s>>
    ELSE LET k == CHOOSE j \in 1..Len(s) :
                      s[j] = "," /\ \A m \in 1..(j - 1) : s[m] # ","
         IN <<SubSeq(s, 1, k - 1)>> \o Split(SubSeq(s, k + 1, Len(s)))

\* String.prototype.trim(): white space removed at both ends.
RECURSIVE Trim(_)
Trim(s) ==
    IF s = <<>> THEN s
    ELSE IF Head(s) = " " THEN Trim(Tail(s))
    ELSE IF s[Len(s)] = " " THEN Trim(SubSeq(s, 1, Len(s) - 1))
    ELSE s

\* The text made of the characters of s.
RECURSIVE Str(_)
Str(s) == IF s = <<>> THEN "" ELSE Head(s) \o Str(Tail(s))

\* paramsStr.split(",").map((p) => p.trim())
SplitTrim(paramsStr) ==
    LET parts == Split(paramsStr)
    IN [j \in 1..Len(parts) |-> Str(Trim(parts[j]))]

\* if (paramsStr) { params = paramsStr.split(",").map(trim) }, else [].
ParseParams(paramsStr) ==
    IF paramsStr # <<>> THEN SplitTrim(paramsStr) ELSE <<>>

\* Truthiness of a value written by its literal notation.
Truthy(v) == v \notin {"undefined", "null", "0", "", "false", "NaN"}

\* Faulty variant: the placeholder carries the zero based index.
Dollar_ZeroBased(k) == "$" \o ToString(k - 1)

\* `$${i + 1}` for the zero based index i = k - 1.
Dollar(k) == "$" \o ToString(k)

\* Faulty variant: the column name is not quoted.
Quote_Unquoted(col) == col

\* `"${col}"`
Quote(col) == "\"" \o col \o "\""

\* Array.prototype.join(", "), the separator kept as a piece of its own.
JoinComma(parts) ==
    [j \in 1..(IF Len(parts) = 0 THEN 0 ELSE 2 * Len(parts) - 1) |->
        IF j % 2 = 1 THEN parts[(j + 1) \div 2] ELSE ","]

\* ------------------------------------------------------------ statement building
Built(sql, params) == [ok |-> TRUE, msg |-> "", sql |-> sql, params |-> params]

Throws(msg) == [ok |-> FALSE, msg |-> msg, sql |-> <<>>, params |-> <<>>]

\* case "executeQuery": the text verbatim, the parameters split and trimmed.
BuildExecuteQuery(p) == Built(p.query, ParseParams(p.queryParams))

\* const limit = returnAll ? null : await getNodeParameter("limit")
SelectLimit(p) == IF p.returnAll THEN "null" ELSE p.limit

\* Faulty variant: LIMIT is appended whatever the limit is.
LimitClause_Always(limit) == <<"LIMIT", limit>>

\* if (limit) queryText += ` LIMIT ${limit}`
LimitClause(limit) == IF Truthy(limit) THEN <<"LIMIT", limit>> ELSE <<>>

\* Faulty variant: the where parameters are passed without a where text.
SelectWhereParams_Always(p) == ParseParams(p.whereParams)

\* if (where) { queryText += ` WHERE ${where}`; if (whereParamsStr) ... }
SelectWhereParams(p) ==
    IF p.where # <<>> THEN ParseParams(p.whereParams) ELSE <<>>

\* case "select"
BuildSelect(p) ==
    LET columns == IF p.columns # "" THEN p.columns ELSE "*"
        base == <<"SELECT", columns, "FROM", p.table>>
        whereClause == IF p.where # <<>> THEN <<"WHERE">> \o p.where ELSE <<>>
        orderClause == IF p.orderBy # <<>> THEN <<"ORDER BY">> \o p.orderBy ELSE <<>>
    IN Built(base \o whereClause \o orderClause \o LimitClause(SelectLimit(p)),
             SelectWhereParams(p))

\* typeof columnsMap === "string" ? JSON.parse(columnsMap) : columnsMap || {}
\* then Object.entries(data), which throws a TypeError when data is null
ParseColumnsMap(m) ==
    CASE m.kind = "badjson" ->
           [ok |-> FALSE, msg |-> "Invalid JSON in columnsMap", data |-> <<>>]
      [] m.kind = "jsonnull" ->
           [ok |-> FALSE, msg |-> "TypeError", data |-> <<>>]
      [] OTHER -> [ok |-> TRUE, msg |-> "", data |-> m.entries]

\* Faulty variant: only the empty string is dropped.
KeepsValue_EmptyStringOnly(v) == v # ""

\* value !== "" && value !== null && value !== undefined
KeepsValue(v) == v # "" /\ v # "null" /\ v # "undefined"

\* The entries of data that are kept, in data's order.
FilterData(data) == SelectSeq(data, LAMBDA e : KeepsValue(e.v))

ReturnFields(p) == IF p.returnFields # "" THEN p.returnFields ELSE "*"

\* case "insert"
BuildInsert(p) ==
    LET parsed == ParseColumnsMap(p.columnsMap)
        filteredData == FilterData(parsed.data)
        n == Len(filteredData)
        quotedColumns == JoinComma([j \in 1..n |-> Quote(filteredData[j].k)])
        placeholders == JoinComma([j \in 1..n |-> Dollar(j)])
    IN IF ~parsed.ok THEN Throws(parsed.msg)
       ELSE IF n = 0 THEN Throws("No data provided for insert")
       ELSE Built(<<"INSERT INTO", p.table, "(">> \o quotedColumns
                    \o <<")", "VALUES", "(">> \o placeholders
                    \o <<")", "RETURNING", ReturnFields(p)>>,
                  [j \in 1..n |-> filteredData[j].v])

\* Faulty variant: the WHERE check is missing.
WhereMissing_Never(where) == FALSE

\* if (!where) throw ...   (update and delete)
WhereMissing(where) == where = <<>>

\* columns.map((col, i) => `"${col}" = $${i + 1}`).join(", ")
SetClause(filteredData) ==
    LET n == Len(filteredData)
        RECURSIVE Go(_)
        Go(j) == IF j > n THEN <<>>
                 ELSE (IF j > 1 THEN <<",">> ELSE <<>>)
                        \o <<Quote(filteredData[j].k), "=", Dollar(j)>> \o Go(j + 1)
    IN Go(1)

\* Faulty variant: the where parameters come before the SET values.
UpdateParams_WhereFirst(filteredData, whereParamsStr) ==
    ParseParams(whereParamsStr) \o [j \in 1..Len(filteredData) |-> filteredData[j].v]

\* queryParams = [...values]; queryParams.push(...whereParams)
UpdateParams(filteredData, whereParamsStr) ==
    [j \in 1..Len(filteredData) |-> filteredData[j].v] \o ParseParams(whereParamsStr)

\* case "update"
BuildUpdate(p) ==
    LET parsed == ParseColumnsMap(p.columnsMap)
        filteredData == FilterData(parsed.data)
    IN IF WhereMissing(p.where) THEN Throws("WHERE clause is required for UPDATE")
       ELSE IF ~parsed.ok THEN Throws(parsed.msg)
       ELSE IF Len(filteredData) = 0 THEN Throws("No data provided for update")
       ELSE Built(<<"UPDATE", p.table, "SET">> \o SetClause(filteredData)
                    \o <<"WHERE">> \o p.where
                    \o <<"RETURNING", ReturnFields(p)>>,
                  UpdateParams(filteredData, p.whereParams))

\* case "delete"
BuildDelete(p) ==
    IF WhereMissing(p.where) THEN Throws("WHERE clause is required for DELETE")
    ELSE Built(<<"DELETE FROM", p.table, "WHERE">> \o p.where,
               ParseParams(p.whereParams))

\* Faulty variant: no default case, an unknown tag runs the raw query.
Build_DefaultExecutes(op, p) ==
    CASE op = "select" -> BuildSelect(p)
      [] op = "insert" -> BuildInsert(p)
      [] op = "update" -> BuildUpdate(p)
      [] op = "delete" -> BuildDelete(p)
      [] OTHER -> BuildExecuteQuery(p)

\* switch (operation): the statement of one item, or the error thrown
\* before pool.query is reached.
Build(op, p) ==
    CASE op = "executeQuery" -> BuildExecuteQuery(p)
      [] op = "select" -> BuildSelect(p)
      [] op = "insert" -> BuildInsert(p)
      [] op = "update" -> BuildUpdate(p)
      [] op = "delete" -> BuildDelete(p)
      [] OTHER -> Throws("Unknown operation")

\* ------------------------------------------------------------ execute
NoError == ""

NotReturned == [done |-> FALSE, main |-> <<>>]

\* const continueOnFail = this.settings?.continueOnFail ?? false
ContinueOnFailOf(setting) == setting = "true"

\* Faulty variant: an empty item is added to every input.
ItemsToProcess_AlwaysAdds(n) == n + 1

\* const itemsToProcess = items.length > 0 ? items : [{ json: {} }]
ItemsToProcess(n) == IF n > 0 THEN n ELSE 1

\* Faulty variant: the host of the credentials is not looked at.
CredentialsUnusable_HostUnchecked(c) == c \in {"throws", "null"}

\* if (!credentials || !credentials.host) throw ...; a throw of
\* getCredentials itself lands in the same catch and is thrown again.
CredentialsUnusable(c) == c \in {"throws", "null", "nohost"}

\* The result record pushed after a resolved query; data stands for what
\* the driver returned for that query (the serial number of the query).
SuccessOutcome(op, serial) ==
    [error |-> FALSE, errorMessage |-> "", op |-> op, data |-> serial]

\* results.push({ json: { error: true, errorMessage: error.message, ... } })
ErrorOutcome(msg) ==
    [error |-> TRUE, errorMessage |-> msg, op |-> "", data |-> 0]

\* Faulty variant: the catch handler always throws again.
CatchContinues_Never(cof) == FALSE

\* Faulty variant: the catch handler never throws again.
CatchContinues_Always(cof) == TRUE

\* if (continueOnFail) { results.push(error record) } else { throw error }
CatchContinues(cof) == cof

\* Faulty variant: pool.end() after the loop instead of in a finally block.
FinallyEndsPool_OnSuccessOnly(pending) == pending = NoError

\* Faulty variant: the pool is never ended.
FinallyEndsPool_Never(pending) == FALSE

\* finally { await pool.end() }: the pool is ended whether or not an error
\* is on its way to the caller.
FinallyEndsPool(pending) == TRUE

\* Faulty variant: the loop never reaches the finally block.
AfterItem_NeverLeaves(r, k) == "loop"

\* for (let i = 0; i < itemsToProcess.length; i++)
\* Where the loop goes after item k: the next item, or the finally block.
AfterItem(r, k) == IF k + 1 > itemsToProcess[r] THEN "finally" ELSE "loop"

\* The values settings.ssl and credentials.ssl can have.
SslValues == {"undefined", "null", "true", "false"}

\* Faulty variant: the first truthy value wins (|| in place of ??).
EffectiveSsl_FirstTruthy(s, c) ==
    IF s = "true" THEN s ELSE IF c = "true" THEN c ELSE "false"

\* ssl = this.settings?.ssl ?? credentials.ssl ?? false
EffectiveSsl(s, c) ==
    IF s \notin {"undefined", "null"} THEN s
    ELSE IF c \notin {"undefined", "null"} THEN c
    ELSE "false"

\* new Pool({ ..., ssl: ssl ? { rejectUnauthorized: false } : false })
PoolSsl(flag) == IF Truthy(flag) THEN "rejectUnauthorized:false" ELSE "false"

\* The ssl values of a call before its pool exists.
SslOf(s, c) == [setting |-> s, credential |-> c, pool |-> "none"]

\* Neither the settings nor the credentials say anything about ssl.
NoSsl == SslOf("undefined", "undefined")

\* await pool.end(): the first call on a pool resolves; what a further
\* call on the same pool does is up to the driver.
PoolEndOutcomes(ends) ==
    IF ends = 0 THEN {"resolves"} ELSE {"resolves", "rejects"}

\* No error was thrown.
NoFailure == [code |-> "(no error)", message |-> ""]

\* No result returned yet.
NoResult == [success |-> FALSE, message |-> "(nothing returned)"]

\* The data handed to test(): nothing, before the call.
NoData ==
    [host |-> "undefined", port |-> "undefined", database |-> "undefined",
     user |-> "undefined", password |-> "undefined", ssl |-> "undefined"]

\* The connection test at data d, at control point p.
TestAt(p, d) ==
    [pc |-> p, data |-> d, pools |-> 0, poolSsl |-> "none", queries |-> 0,
     ends |-> 0, rows |-> <<>>, error |-> NoFailure, result |-> NoResult,
     raised |-> FALSE]

\* test() is not called.
TestOff == TestAt("off", NoData)

\* The option loader `method` for the selected table `table`, at control
\* point p, with the calls completed before in `history`.
LoadAt(p, method, table, sslOf, history) ==
    [pc |-> p, method |-> method, table |-> table, ssl |-> sslOf,
     credentials |-> "unread", pools |-> 0, queries |-> <<>>, rows |-> <<>>,
     error |-> "", ends |-> 0, out |-> <<>>, raised |-> FALSE,
     history |-> history]

\* No option loader is called.
LoadOff == LoadAt("off", "none", "undefined", NoSsl, <<>>)

\* execute is called once: run 1 is at its entry, with its settings and
\* its input items.
ExecuteIdle ==
    /\ pc = [r \in Runs |-> IF r = 1 THEN "idle" ELSE "off"]
    /\ \E s \in SettingValues :
          settings = [r \in Runs |-> IF r = 1 THEN s ELSE "unset"]
    /\ \E n \in 0..MaxItems :
          items = [r \in Runs |-> IF r = 1 THEN n ELSE 0]
    /\ continueOnFail = [r \in Runs |-> FALSE]
    /\ credentials = [r \in Runs |-> "unread"]
    /\ operation = [r \in Runs |-> "unread"]
    /\ itemsToProcess = [r \in Runs |-> 0]
    /\ i = [r \in Runs |-> 0]
    /\ results = [r \in Runs |-> <<>>]
    /\ cur = [r \in Runs |-> NoInput]
    /\ queryText = [r \in Runs |-> <<>>]
    /\ queryParams = [r \in Runs |-> <<>>]
    /\ err = [r \in Runs |-> NoError]
    /\ dispatched = [r \in Runs |-> <<>>]
    /\ failed = [r \in Runs |-> {}]
    /\ poolCreated = [r \in Runs |-> 0]
    /\ poolEnded = [r \in Runs |-> 0]
    /\ returned = [r \in Runs |-> NotReturned]
    /\ thrown = [r \in Runs |-> NoError]

\* execute is not called.
ExecuteOff ==
    /\ pc = [r \in Runs |-> "off"]
    /\ settings = [r \in Runs |-> "unset"]
    /\ items = [r \in Runs |-> 0]
    /\ continueOnFail = [r \in Runs |-> FALSE]
    /\ credentials = [r \in Runs |-> "unread"]
    /\ operation = [r \in Runs |-> "unread"]
    /\ itemsToProcess = [r \in Runs |-> 0]
    /\ i = [r \in Runs |-> 0]
    /\ results = [r \in Runs |-> <<>>]
    /\ cur = [r \in Runs |-> NoInput]
    /\ queryText = [r \in Runs |-> <<>>]
    /\ queryParams = [r \in Runs |-> <<>>]
    /\ err = [r \in Runs |-> NoError]
    /\ dispatched = [r \in Runs |-> <<>>]
    /\ failed = [r \in Runs |-> {}]
    /\ poolCreated = [r \in Runs |-> 0]
    /\ poolEnded = [r \in Runs |-> 0]
    /\ returned = [r \in Runs |-> NotReturned]
    /\ thrown = [r \in Runs |-> NoError]

\* One call of execute whose settings and credentials leave ssl unset; the
\* connection test and the option loaders are not called.
Init ==
    /\ ExecuteIdle
    /\ ssl = [r \in Runs |-> NoSsl]
    /\ test = TestOff
    /\ load = LoadOff

\* execute, lines 425-436: the items, the empty results, the setting.
Execute(r) ==
    /\ pc[r] = "idle"
    /\ itemsToProcess' = [itemsToProcess EXCEPT ![r] = ItemsToProcess(items[r])]
    /\ continueOnFail' = [continueOnFail EXCEPT ![r] = ContinueOnFailOf(settings[r])]
    /\ results' = [results EXCEPT ![r] = <<>>]
    /\ pc' = [pc EXCEPT ![r] = "setup"]
    /\ UNCHANGED <<settings, items, credentials, operation, i, cur, queryText,
                   queryParams, err, dispatched, failed, poolCreated, poolEnded,
                   returned, thrown>>
    /\ UNCHANGED <<ssl, test, load>>

\* execute, lines 438-487: the credentials, the operation tag, new Pool.
Setup(r) ==
    /\ pc[r] = "setup"
    /\ \E c \in CredentialOutcomes, op \in OperationTags :
          /\ credentials' = [credentials EXCEPT ![r] = c]
          /\ IF CredentialsUnusable(c)
             THEN /\ thrown' = [thrown EXCEPT ![r] = "Failed to get credentials"]
                  /\ pc' = [pc EXCEPT ![r] = "raised"]
                  /\ UNCHANGED <<operation, poolCreated, i, ssl>>
             ELSE /\ operation' = [operation EXCEPT ![r] = op]
                  /\ ssl' = [ssl EXCEPT ![r].pool =
                               PoolSsl(EffectiveSsl(ssl[r].setting,
                                                    ssl[r].credential))]
                  /\ poolCreated' = [poolCreated EXCEPT ![r] = @ + 1]
                  /\ i' = [i EXCEPT ![r] = 1]
                  /\ pc' = [pc EXCEPT ![r] = "loop"]
                  /\ UNCHANGED thrown
    /\ UNCHANGED <<settings, items, continueOnFail, itemsToProcess, results, cur,
                   queryText, queryParams, err, dispatched, failed, poolEnded,
                   returned>>
    /\ UNCHANGED <<test, load>>

\* Faulty variant: the statement is handed to the driver and the loop goes
\* on to the next item without waiting for the answer.
BuildItem_NoAwait(r) ==
    /\ pc[r] = "loop"
    /\ i[r] <= itemsToProcess[r]
    /\ \E p \in Inputs(operation[r], i[r]) :
          LET b == Build(operation[r], p)
          IN /\ cur' = [cur EXCEPT ![r] = p]
             /\ IF b.ok
                THEN /\ queryText' = [queryText EXCEPT ![r] = b.sql]
                     /\ queryParams' = [queryParams EXCEPT ![r] = b.params]
                     /\ dispatched' = [dispatched EXCEPT ![r] = Append(@, i[r])]
                     /\ i' = [i EXCEPT ![r] = @ + 1]
                     /\ pc' = [pc EXCEPT ![r] = AfterItem(r, i[r])]
                     /\ UNCHANGED <<err, failed>>
                ELSE /\ err' = [err EXCEPT ![r] = b.msg]
                     /\ failed' = [failed EXCEPT ![r] =
                                     @ \cup {[item |-> i[r], msg |-> b.msg]}]
                     /\ pc' = [pc EXCEPT ![r] = "catch"]
                     /\ UNCHANGED <<queryText, queryParams, dispatched, i>>
    /\ UNCHANGED <<settings, items, continueOnFail, credentials, operation,
                   itemsToProcess, results, poolCreated, poolEnded, returned,
                   thrown>>
    /\ UNCHANGED <<ssl, test, load>>

\* One turn of the loop up to pool.query, lines 490-506/550/600/667/695/707:
\* the parameters are read and the statement is built; the statement is
\* handed to the driver, or the error thrown on the way reaches the catch.
\* p is what the item's parameters are read as.
BuildItemWith(r, p) ==
    /\ pc[r] = "loop"
    /\ i[r] <= itemsToProcess[r]
    /\ LET b == Build(operation[r], p)
       IN /\ cur' = [cur EXCEPT ![r] = p]
          /\ IF b.ok
             THEN /\ queryText' = [queryText EXCEPT ![r] = b.sql]
                  /\ queryParams' = [queryParams EXCEPT ![r] = b.params]
                  /\ dispatched' = [dispatched EXCEPT ![r] = Append(@, i[r])]
                  /\ pc' = [pc EXCEPT ![r] = "await"]
                  /\ UNCHANGED <<err, failed>>
             ELSE /\ err' = [err EXCEPT ![r] = b.msg]
                  /\ failed' = [failed EXCEPT ![r] =
                                  @ \cup {[item |-> i[r], msg |-> b.msg]}]
                  /\ pc' = [pc EXCEPT ![r] = "catch"]
                  /\ UNCHANGED <<queryText, queryParams, dispatched>>
    /\ UNCHANGED <<settings, items, continueOnFail, credentials, operation,
                   itemsToProcess, i, results, poolCreated, poolEnded, returned,
                   thrown>>
    /\ UNCHANGED <<ssl, test, load>>

\* The turn for the parameters item i of the run can read.
BuildItem(r) ==
    /\ pc[r] = "loop"
    /\ \E p \in Inputs(operation[r], i[r]) : BuildItemWith(r, p)

\* pool.query resolves: the result record is pushed and the loop goes on.
QueryResolves(r) ==
    /\ pc[r] = "await"
    /\ results' = [results EXCEPT ![r] =
                     Append(@, SuccessOutcome(operation[r], Len(dispatched[r])))]
    /\ i' = [i EXCEPT ![r] = @ + 1]
    /\ pc' = [pc EXCEPT ![r] = AfterItem(r, i[r])]
    /\ cur' = [cur EXCEPT ![r] = NoInput]
    /\ queryText' = [queryText EXCEPT ![r] = <<>>]
    /\ queryParams' = [queryParams EXCEPT ![r] = <<>>]
    /\ UNCHANGED <<settings, items, continueOnFail, credentials, operation,
                   itemsToProcess, err, dispatched, failed, poolCreated,
                   poolEnded, returned, thrown>>
    /\ UNCHANGED <<ssl, test, load>>

\* pool.query rejects: the driver's error reaches the catch of the item.
QueryRejects(r) ==
    /\ pc[r] = "await"
    /\ err' = [err EXCEPT ![r] = "QueryError"]
    /\ failed' = [failed EXCEPT ![r] =
                    @ \cup {[item |-> i[r], msg |-> "QueryError"]}]
    /\ pc' = [pc EXCEPT ![r] = "catch"]
    /\ UNCHANGED <<settings, items, continueOnFail, credentials, operation,
                   itemsToProcess, i, results, cur, queryText, queryParams,
                   dispatched, poolCreated, poolEnded, returned, thrown>>
    /\ UNCHANGED <<ssl, test, load>>

\* Faulty variant: with continueOnFail the failed item is tried again.
ItemCatch_Retries(r) ==
    /\ pc[r] = "catch"
    /\ IF CatchContinues(continueOnFail[r])
       THEN /\ err' = [err EXCEPT ![r] = NoError]
            /\ pc' = [pc EXCEPT ![r] = "loop"]
            /\ UNCHANGED <<results, i>>
       ELSE /\ pc' = [pc EXCEPT ![r] = "finally"]
            /\ UNCHANGED <<results, err, i>>
    /\ cur' = [cur EXCEPT ![r] = NoInput]
    /\ queryText' = [queryText EXCEPT ![r] = <<>>]
    /\ queryParams' = [queryParams EXCEPT ![r] = <<>>]
    /\ UNCHANGED <<settings, items, continueOnFail, credentials, operation,
                   itemsToProcess, dispatched, failed, poolCreated, poolEnded,
                   returned, thrown>>
    /\ UNCHANGED <<ssl, test, load>>

\* catch (error) of the item, lines 709-732.
ItemCatch(r) ==
    /\ pc[r] = "catch"
    /\ IF CatchContinues(continueOnFail[r])
       THEN /\ results' = [results EXCEPT ![r] = Append(@, ErrorOutcome(err[r]))]
            /\ err' = [err EXCEPT ![r] = NoError]
            /\ i' = [i EXCEPT ![r] = @ + 1]
            /\ pc' = [pc EXCEPT ![r] = AfterItem(r, i[r])]
       ELSE /\ pc' = [pc EXCEPT ![r] = "finally"]
            /\ UNCHANGED <<results, err, i>>
    /\ cur' = [cur EXCEPT ![r] = NoInput]
    /\ queryText' = [queryText EXCEPT ![r] = <<>>]
    /\ queryParams' = [queryParams EXCEPT ![r] = <<>>]
    /\ UNCHANGED <<settings, items, continueOnFail, credentials, operation,
                   itemsToProcess, dispatched, failed, poolCreated, poolEnded,
                   returned, thrown>>
    /\ UNCHANGED <<ssl, test, load>>

\* Faulty variant: one pool for all runs, as if it were created once for
\* the module: the finally block of a run ends the pool of every run.
Finally_SharedPool(r) ==
    /\ pc[r] = "finally"
    /\ poolEnded' = [q \in Runs |->
                       IF poolCreated[q] >= 1 THEN poolEnded[q] + 1
                       ELSE poolEnded[q]]
    /\ IF err[r] # NoError
       THEN /\ thrown' = [thrown EXCEPT ![r] = err[r]]
            /\ pc' = [pc EXCEPT ![r] = "raised"]
            /\ UNCHANGED returned
       ELSE /\ returned' = [returned EXCEPT ![r] =
                              [done |-> TRUE, main |-> results[r]]]
            /\ pc' = [pc EXCEPT ![r] = "returned"]
            /\ UNCHANGED thrown
    /\ UNCHANGED <<settings, items, continueOnFail, credentials, operation,
                   itemsToProcess, i, results, cur, queryText, queryParams,
                   err, dispatched, failed, poolCreated>>
    /\ UNCHANGED <<ssl, test, load>>

\* finally { await pool.end() }, then return [{ main: results }] or the
\* error goes on to the caller, lines 734-742.
Finally(r) ==
    /\ pc[r] = "finally"
    /\ poolEnded' = [poolEnded EXCEPT ![r] =
                       IF FinallyEndsPool(err[r]) THEN @ + 1 ELSE @]
    /\ IF err[r] # NoError
       THEN /\ thrown' = [thrown EXCEPT ![r] = err[r]]
            /\ pc' = [pc EXCEPT ![r] = "raised"]
            /\ UNCHANGED returned
       ELSE /\ returned' = [returned EXCEPT ![r] =
                              [done |-> TRUE, main |-> results[r]]]
            /\ pc' = [pc EXCEPT ![r] = "returned"]
            /\ UNCHANGED thrown
    /\ UNCHANGED <<settings, items, continueOnFail, credentials, operation,
                   itemsToProcess, i, results, cur, queryText, queryParams, err,
                   dispatched, failed, poolCreated>>
    /\ UNCHANGED <<ssl, test, load>>

Next ==
    \E r \in Runs :
        \/ Execute(r)
        \/ Setup(r)
        \/ BuildItem(r)
        \/ QueryResolves(r)
        \/ QueryRejects(r)
        \/ ItemCatch(r)
        \/ Finally(r)

Spec == Init /\ [][Next]_vars

\* Largest number of input items of each of two concurrent runs.
MaxPairItems == 1

\* execute is called twice, the calls overlapping in time: runs 1 and 2
\* are at their entry, each with its own settings and input items.
InitPair ==
    /\ pc = [r \in Runs |-> IF r <= 2 THEN "idle" ELSE "off"]
    /\ \E s \in [1..2 -> SettingValues] :
          settings = [r \in Runs |-> IF r <= 2 THEN s[r] ELSE "unset"]
    /\ \E n \in [1..2 -> 0..MaxPairItems] :
          items = [r \in Runs |-> IF r <= 2 THEN n[r] ELSE 0]
    /\ continueOnFail = [r \in Runs |-> FALSE]
    /\ credentials = [r \in Runs |-> "unread"]
    /\ operation = [r \in Runs |-> "unread"]
    /\ itemsToProcess = [r \in Runs |-> 0]
    /\ i = [r \in Runs |-> 0]
    /\ results = [r \in Runs |-> <<>>]
    /\ cur = [r \in Runs |-> NoInput]
    /\ queryText = [r \in Runs |-> <<>>]
    /\ queryParams = [r \in Runs |-> <<>>]
    /\ err = [r \in Runs |-> NoError]
    /\ dispatched = [r \in Runs |-> <<>>]
    /\ failed = [r \in Runs |-> {}]
    /\ poolCreated = [r \in Runs |-> 0]
    /\ poolEnded = [r \in Runs |-> 0]
    /\ returned = [r \in Runs |-> NotReturned]
    /\ thrown = [r \in Runs |-> NoError]
    /\ ssl = [r \in Runs |-> NoSsl]
    /\ test = TestOff
    /\ load = LoadOff

\* ------------------------------------------------------------ test(data)
\* The values a field of the credential form can have.
FieldValues == {"undefined", "", "x"}
PortValues == {"undefined", "5433"}

\* The data test() can be called with.
TestData ==
    [host : FieldValues, port : PortValues, database : FieldValues,
     user : FieldValues, password : FieldValues, ssl : {"undefined", "true"}]

\* The error codes test() tells apart.
KnownCodes ==
    {"ECONNREFUSED", "ENOTFOUND", "ETIMEDOUT", "28P01", "3D000", "28000",
     "08001"}

\* The errors pool.query can reject with: the known codes, another code,
\* no code, no code and no message.
QueryFailures ==
    {[code |-> c, message |-> "driver error"] : c \in KnownCodes \cup {"53300"}}
       \cup {[code |-> "undefined", message |-> "socket hang up"],
             [code |-> "undefined", message |-> ""]}

\* The version texts of the first row, as words; <<"undefined">> is a row
\* without a version.
VersionTexts ==
    { <<"PostgreSQL", "15.2", "on", "x86_64">>, <<"CockroachDB", "v23">>,
      <<"undefined">> }

\* What a resolved pool.query holds: no row, or one row with its version.
RowOutcomes == {<<>>} \cup {<<v>> : v \in VersionTexts}

\* The words [\d.]+ matches.
NumberWords == {"15.2"}

\* data.port || 5432
PortOf(d) == IF Truthy(d.port) THEN d.port ELSE "5432"

\* version.match(/PostgreSQL ([\d.]+)/), versionMatch ? versionMatch[1] : "Unknown"
VersionStr(version) ==
    IF \E j \in 1..(Len(version) - 1) :
          version[j] = "PostgreSQL" /\ version[j + 1] \in NumberWords
    THEN version[(CHOOSE j \in 1..(Len(version) - 1) :
                     version[j] = "PostgreSQL" /\ version[j + 1] \in NumberWords) + 1]
    ELSE "Unknown"

\* if (!data.host || !data.database || !data.user || !data.password)
FieldsMissing(d) ==
    ~Truthy(d.host) \/ ~Truthy(d.database) \/ ~Truthy(d.user)
       \/ ~Truthy(d.password)

\* The message of the outer catch, lines 121-169.
FailureMessage(e, d) ==
    CASE e.code = "ECONNREFUSED" ->
           "Cannot connect to database server at " \o d.host \o ":"
              \o PortOf(d) \o ". Connection refused."
      [] e.code = "ENOTFOUND" ->
           "Cannot resolve host: " \o d.host \o ". Please check the hostname."
      [] e.code = "ETIMEDOUT" ->
           "Connection timeout to " \o d.host \o ":" \o PortOf(d)
              \o ". Please check firewall and network settings."
      [] e.code = "28P01" ->
           "Authentication failed. Invalid username or password."
      [] e.code = "3D000" ->
           "Database \"" \o d.database \o "\" does not exist."
      [] e.code = "28000" ->
           "Authorization failed. User does not have access to this database."
      [] e.code = "08001" ->
           "Unable to establish connection. Please check server settings."
      [] OTHER ->
           "Connection failed: "
              \o (IF e.message # "" THEN e.message ELSE "Unknown error")

\* Faulty variant: an error without a known code is thrown on.
OuterCatchReturns_KnownOnly(e) == e.code \in KnownCodes

\* Every branch of the outer catch returns, lines 121-169.
OuterCatchReturns(e) == TRUE

\* test() is called once, with some data.
InitTest ==
    /\ ExecuteOff
    /\ ssl = [r \in Runs |-> NoSsl]
    /\ load = LoadOff
    /\ \E d \in TestData : test = TestAt("idle", d)

\* test, lines 67-95: the required fields; new Pool; pool.query.
TestCall ==
    /\ test.pc = "idle"
    /\ IF FieldsMissing(test.data)
       THEN test' = [test EXCEPT
                       !.pc = "done",
                       !.result = [success |-> FALSE,
                                   message |-> "Host, database, user, and password are required"]]
       ELSE test' = [test EXCEPT
                       !.pc = "query",
                       !.pools = @ + 1,
                       !.poolSsl = PoolSsl(test.data.ssl),
                       !.queries = @ + 1]
    /\ UNCHANGED <<executeVars, ssl, load>>

\* pool.query resolves, line 93.
TestQueryResolves ==
    /\ test.pc = "query"
    /\ \E rows \in RowOutcomes :
          test' = [test EXCEPT !.pc = "end", !.rows = rows]
    /\ UNCHANGED <<executeVars, ssl, load>>

\* pool.query rejects: the inner catch is entered, line 117.
TestQueryRejects ==
    /\ test.pc = "query"
    /\ \E e \in QueryFailures :
          test' = [test EXCEPT !.pc = "catch", !.error = e]
    /\ UNCHANGED <<executeVars, ssl, load>>

\* The error of a pool.end() the driver rejects.
EndRejected == [code |-> "undefined", message |-> "Called end on pool more than once"]

\* The TypeError of version.match on a row without a version.
NoVersion ==
    [code |-> "undefined",
     message |-> "Cannot read properties of undefined (reading 'match')"]

\* await pool.end() after the query, then the rows, lines 96-109.
TestPoolEnd ==
    /\ test.pc = "end"
    /\ \E o \in PoolEndOutcomes(test.ends) :
          LET d == test.data
          IN test' =
               IF o = "rejects"
               THEN [test EXCEPT !.ends = @ + 1, !.pc = "catch",
                                 !.error = EndRejected]
               ELSE IF test.rows = <<>>
               THEN [test EXCEPT !.ends = @ + 1, !.pc = "end again"]
               ELSE IF test.rows[1] = <<"undefined">>
               THEN [test EXCEPT !.ends = @ + 1, !.pc = "catch",
                                 !.error = NoVersion]
               ELSE [test EXCEPT
                       !.ends = @ + 1, !.pc = "done",
                       !.result =
                          [success |-> TRUE,
                           message |-> "Connected successfully to PostgreSQL "
                              \o VersionStr(test.rows[1]) \o " at " \o d.host
                              \o ":" \o PortOf(d) \o "/" \o d.database]]
    /\ UNCHANGED <<executeVars, ssl, load>>

\* No row: await pool.end() once more, then "Connection successful",
\* lines 112-116.
TestPoolEndAgain ==
    /\ test.pc = "end again"
    /\ \E o \in PoolEndOutcomes(test.ends) :
          test' =
            IF o = "rejects"
            THEN [test EXCEPT !.ends = @ + 1, !.pc = "catch",
                              !.error = EndRejected]
            ELSE [test EXCEPT
                    !.ends = @ + 1, !.pc = "done",
                    !.result = [success |-> TRUE,
                                message |-> "Connection successful"]]
    /\ UNCHANGED <<executeVars, ssl, load>>

\* The inner catch: await pool.end(); throw queryError; and the outer
\* catch, which turns the error into the result, lines 117-169.
TestCatch ==
    /\ test.pc = "catch"
    /\ \E o \in PoolEndOutcomes(test.ends) :
          LET e == IF o = "rejects" THEN EndRejected ELSE test.error
          IN test' =
               IF OuterCatchReturns(e)
               THEN [test EXCEPT
                       !.ends = @ + 1, !.pc = "done", !.error = e,
                       !.result = [success |-> FALSE,
                                   message |-> FailureMessage(e, test.data)]]
               ELSE [test EXCEPT !.ends = @ + 1, !.pc = "raised",
                                 !.error = e, !.raised = TRUE]
    /\ UNCHANGED <<executeVars, ssl, load>>

NextTest ==
    \/ TestCall
    \/ TestQueryResolves
    \/ TestQueryRejects
    \/ TestPoolEnd
    \/ TestPoolEndAgain
    \/ TestCatch

SpecTest == InitTest /\ [][NextTest]_vars

\* ------------------------------------------------------------ loadOptions
LoadMethods == {"getTables", "getColumnsForMap"}

\* The values of the `table` parameter.
TableValues == {"undefined", "", "users"}

\* The rows the catalog query for the tables can resolve with.
TableRows == { <<>>, <<"orders", "users">> }

\* A row of information_schema.columns.
ColumnRow(name, type, nullable, default, maxLength, precision, scale) ==
    [column_name |-> name, data_type |-> type, is_nullable |-> nullable,
     column_default |-> default, character_maximum_length |-> maxLength,
     numeric_precision |-> precision, numeric_scale |-> scale]

\* The rows the catalog query for the columns can resolve with.
ColumnRows ==
    { <<>>,
      <<ColumnRow("id", "integer", "NO", "nextval('users_id_seq')", "null",
                  "32", "0"),
        ColumnRow("name", "character varying", "YES", "null", "255", "null",
                  "null")>>,
      <<ColumnRow("price", "numeric", "YES", "null", "null", "10", "2")>> }

\* What the catalog query of a method can resolve with.
CatalogRows(method) == IF method = "getTables" THEN TableRows ELSE ColumnRows

\* The catalog query of a method and its parameters, lines 802-808, 883-899.
CatalogQuery(method, table) ==
    IF method = "getTables"
    THEN [sql |-> "SELECT table_name FROM information_schema.tables",
          params |-> <<>>]
    ELSE [sql |-> "SELECT column_name, ... FROM information_schema.columns",
          params |-> <<table>>]

\* { name: row.table_name, value: row.table_name, description: ... }
TableOption(row) ==
    [name |-> row, value |-> row, description |-> "Table: " \o row]

\* typeInfo.join(" "), lines 905-922.
TypeInfo(row) ==
    row.data_type
       \o (IF Truthy(row.character_maximum_length)
           THEN " (" \o row.character_maximum_length \o ")"
           ELSE IF Truthy(row.numeric_precision)
           THEN " (" \o row.numeric_precision
                   \o (IF Truthy(row.numeric_scale)
                       THEN "," \o row.numeric_scale ELSE "")
                   \o ")"
           ELSE "")
       \o (IF row.is_nullable = "YES" THEN " nullable" ELSE "")
       \o (IF Truthy(row.column_default)
           THEN " default: " \o row.column_default ELSE "")

\* The option of a column, lines 924-931.
ColumnOption(row) ==
    [name |-> row.column_name, value |-> row.column_name,
     displayName |-> row.column_name, description |-> TypeInfo(row),
     type |-> "expression",
     placeholder |-> "Enter value for " \o row.column_name \o "..."]

\* result.rows.map(...), lines 813-817, 904-932.
Options(method, rows) ==
    [j \in 1..Len(rows) |->
        IF method = "getTables" THEN TableOption(rows[j])
        ELSE ColumnOption(rows[j])]

\* An option that carries a diagnostic and no value.
Diagnostic(name, description) ==
    [name |-> name, value |-> "", description |-> description]

\* What a loader returns when the credentials cannot be used,
\* lines 760-766 and 777-783; lines 855-857 and 862-866.
NoCredentialsResult(method, c) ==
    IF method = "getColumnsForMap" THEN <<>>
    ELSE IF c = "throws"
    THEN <<Diagnostic("Error: Credentials required", "error.message")>>
    ELSE <<Diagnostic("No credentials selected",
                      "Please select PostgreSQL credentials first")>>

\* Faulty variant: getColumnsForMap returns a diagnostic option too.
QueryFailedResult_AlwaysDiagnostic(method, message) ==
    <<Diagnostic("Error loading tables - check credentials", message)>>

\* What a loader returns when the catalog query fails, lines 823-829, 936.
QueryFailedResult(method, message) ==
    IF method = "getColumnsForMap" THEN <<>>
    ELSE <<Diagnostic("Error loading tables - check credentials", message)>>

\* Faulty variant: only an undefined table counts as missing.
TableMissing_UndefinedOnly(table) == table = "undefined"

\* if (!table)
TableMissing(table) == ~Truthy(table)

\* What is kept of a completed call.
Summary(l) ==
    [method |-> l.method, table |-> l.table, credentials |-> l.credentials,
     pools |-> l.pools, queries |-> l.queries, error |-> l.error,
     ends |-> l.ends, out |-> l.out, raised |-> l.raised]

\* An option loader is called, with some table selected.
InitLoad ==
    /\ ExecuteOff
    /\ ssl = [r \in Runs |-> NoSsl]
    /\ test = TestOff
    /\ \E m \in LoadMethods, t \in TableValues, s \in SslValues, c \in SslValues :
          load = LoadAt("idle", m, t, SslOf(s, c), <<>>)

\* A loader up to its first await on the driver: the table (lines
\* 839-843), the credentials (lines 756-784, 848-866), new Pool and
\* pool.query (lines 786-808, 868-899).
LoadCall ==
    /\ load.pc = "idle"
    /\ IF load.method = "getColumnsForMap" /\ TableMissing(load.table)
       THEN load' = [load EXCEPT !.pc = "done", !.out = <<>>]
       ELSE \E c \in CredentialOutcomes :
               load' =
                 IF CredentialsUnusable(c)
                 THEN [load EXCEPT
                         !.pc = "done", !.credentials = c,
                         !.out = NoCredentialsResult(load.method, c)]
                 ELSE [load EXCEPT
                         !.pc = "query", !.credentials = c,
                         !.pools = @ + 1,
                         !.ssl.pool = PoolSsl(EffectiveSsl(load.ssl.setting,
                                                           load.ssl.credential)),
                         !.queries = Append(@, CatalogQuery(load.method,
                                                            load.table))]
    /\ UNCHANGED <<executeVars, ssl, test>>

\* pool.query resolves, lines 802, 883.
LoadQueryResolves ==
    /\ load.pc = "query"
    /\ \E rows \in CatalogRows(load.method) :
          load' = [load EXCEPT !.pc = "end", !.rows = rows]
    /\ UNCHANGED <<executeVars, ssl, test>>

\* pool.query rejects: the catch is entered, lines 818, 933.
LoadQueryRejects ==
    /\ load.pc = "query"
    /\ load' = [load EXCEPT !.pc = "catch", !.error = "driver error"]
    /\ UNCHANGED <<executeVars, ssl, test>>

\* await pool.end(), then the options, lines 810-817, 901-932.
LoadPoolEnd ==
    /\ load.pc = "end"
    /\ \E o \in PoolEndOutcomes(load.ends) :
          load' =
            IF o = "rejects"
            THEN [load EXCEPT !.ends = @ + 1, !.pc = "catch",
                              !.error = "Called end on pool more than once"]
            ELSE [load EXCEPT !.ends = @ + 1, !.pc = "done",
                              !.out = Options(load.method, load.rows)]
    /\ UNCHANGED <<executeVars, ssl, test>>

\* Faulty variant: the catch returns without ending the pool.
LoadCatch_LeavesPoolOpen ==
    /\ load.pc = "catch"
    /\ load' = [load EXCEPT
                  !.pc = "done",
                  !.out = QueryFailedResult(load.method, load.error)]
    /\ UNCHANGED <<executeVars, ssl, test>>

\* catch: await pool.end(), then the failure result, lines 818-830,
\* 933-937; a pool.end() that rejects here leaves the loader as an error.
LoadCatch ==
    /\ load.pc = "catch"
    /\ \E o \in PoolEndOutcomes(load.ends) :
          load' =
            IF o = "rejects"
            THEN [load EXCEPT !.ends = @ + 1, !.pc = "raised",
                              !.raised = TRUE]
            ELSE [load EXCEPT
                    !.ends = @ + 1, !.pc = "done",
                    !.out = QueryFailedResult(load.method, load.error)]
    /\ UNCHANGED <<executeVars, ssl, test>>

\* The same loader is called again for the same table.
LoadAgain ==
    /\ load.pc = "done"
    /\ Len(load.history) + 1 < MaxCalls
    /\ load' = LoadAt("idle", load.method, load.table,
                      SslOf(load.ssl.setting, load.ssl.credential),
                      Append(load.history, Summary(load)))
    /\ UNCHANGED <<executeVars, ssl, test>>

NextLoad ==
    \/ LoadCall
    \/ LoadQueryResolves
    \/ LoadQueryRejects
    \/ LoadPoolEnd
    \/ LoadCatch
    \/ LoadAgain

SpecLoad == InitLoad /\ [][NextLoad]_vars

\* execute is called once, with some ssl values in its settings and in
\* the credential store.
InitConnect ==
    /\ ExecuteIdle
    /\ \E s \in SslValues, c \in SslValues :
          ssl = [r \in Runs |-> IF r = 1 THEN SslOf(s, c) ELSE NoSsl]
    /\ test = TestOff
    /\ load = LoadOff

\* The steps of the three entry points that connect with the merged ssl
\* flag: execute up to new Pool, and the option loaders.
NextSsl ==
    \/ \E r \in Runs : Execute(r) \/ Setup(r)
    \/ LoadCall
    \/ LoadQueryResolves
    \/ LoadQueryRejects
    \/ LoadPoolEnd
    \/ LoadCatch
    \/ LoadAgain

\* One of execute, getTables, getColumnsForMap is called.
InitSsl == InitConnect \/ InitLoad

SpecSsl == InitSsl /\ [][NextSsl]_vars

\* ------------------------------------------------------------ properties
\* The placeholders $1, $2, ... that occur in a statement text.
Placeholders(sql) ==
    {k \in 1..MaxPlaceholder : ("$" \o ToString(k)) \in Range(sql)}

\* The items of run r for which pool.query was called.
Dispatched(r) == Range(dispatched[r])

\* Run r is at item i[r]: its statement is with the driver, or its error
\* is in the catch handler.
AtItem(r) == pc[r] \in {"await", "catch"}

Terminal(r) == pc[r] \in {"returned", "raised"}

\* C1: an Update or Delete item whose where text is empty fails with an
\* error and no query for it is ever handed to the driver, whatever the
\* column map and the where parameters are.
C1_EmptyWhereFailsWithoutQuery ==
    \A r \in Runs :
        /\ (operation[r] \in {"update", "delete"} /\ AtItem(r)
             /\ cur[r].where = <<>>)
              => /\ pc[r] = "catch"
                 /\ err[r] \in {"WHERE clause is required for UPDATE",
                                "WHERE clause is required for DELETE"}
                 /\ i[r] \notin Dispatched(r)
        /\ \A f \in failed[r] :
              f.msg \in {"WHERE clause is required for UPDATE",
                         "WHERE clause is required for DELETE"}
                 => f.item \notin Dispatched(r)

\* C1 witness: an Update with a usable column map and where parameters but
\* an empty where text is in the catch handler.
C1_Witness ==
    \E r \in Runs :
        /\ operation[r] = "update" /\ pc[r] = "catch"
        /\ cur[r].where = <<>> /\ cur[r].whereParams # <<>>
        /\ cur[r].columnsMap.kind = "object"
        /\ \E j \in DOMAIN cur[r].columnsMap.entries :
              cur[r].columnsMap.entries[j].v = "Jane"

\* The column map holds no entry, or only entries whose value is null,
\* undefined or the empty string.
NothingToWrite(m) ==
    /\ m.kind \in {"object", "json", "undefined"}
    /\ \A j \in DOMAIN m.entries : m.entries[j].v \in {"", "null", "undefined"}

\* C2: an Insert or Update item whose column map is empty once the null,
\* undefined and empty-string entries are dropped fails with an error and
\* no query is handed to the driver for it.
C2_EmptyDataFailsWithoutQuery ==
    \A r \in Runs :
        (operation[r] \in {"insert", "update"} /\ AtItem(r)
          /\ NothingToWrite(cur[r].columnsMap))
           => /\ pc[r] = "catch"
              /\ err[r] # NoError
              /\ i[r] \notin Dispatched(r)
              /\ \E f \in failed[r] : f.item = i[r] /\ f.msg = err[r]

\* C2 witness: an Update with a where text and a map of two entries, one
\* null and one undefined, is in the catch handler for want of data.
C2_Witness ==
    \E r \in Runs :
        /\ operation[r] = "update" /\ pc[r] = "catch"
        /\ cur[r].where # <<>>
        /\ Len(cur[r].columnsMap.entries) = 2
        /\ cur[r].columnsMap.entries[1].v = "null"
        /\ cur[r].columnsMap.entries[2].v = "undefined"
        /\ err[r] = "No data provided for update"

\* The outcomes out are those of items 1..upto of run r, in order: an
\* error record carrying the item's own error for an item that failed, and
\* otherwise the record of what the driver answered to that item's query.
OutcomesMatch(r, out, upto) ==
    /\ Len(out) = upto
    /\ \A k \in 1..upto :
          IF \E f \in failed[r] : f.item = k
          THEN /\ out[k].error
               /\ \E f \in failed[r] : f.item = k /\ f.msg = out[k].errorMessage
          ELSE /\ ~out[k].error
               /\ out[k].data \in DOMAIN dispatched[r]
               /\ dispatched[r][out[k].data] = k

\* C3: with continueOnFail = true a run over n >= 1 items returns exactly n
\* outcomes in input order, outcome k being an error record iff item k
\* failed, and each outcome being that of its own item whatever happened
\* to the others; the run never raises because of an item.
C3_ContinueOnFailKeepsEveryOutcome ==
    \A r \in Runs :
        (continueOnFail[r] /\ poolCreated[r] = 1)
           => /\ pc[r] # "raised"
              /\ pc[r] \in {"loop", "finally"}
                   => OutcomesMatch(r, results[r], i[r] - 1)
              /\ AtItem(r) => OutcomesMatch(r, results[r], i[r] - 1)
              /\ pc[r] = "returned"
                   => /\ returned[r].done
                      /\ OutcomesMatch(r, returned[r].main, itemsToProcess[r])
                      /\ items[r] >= 1 => Len(returned[r].main) = items[r]

\* C3 witness: a run of three items has returned three outcomes, the
\* second an error record, the first and the third not.
C3_Witness ==
    \E r \in Runs :
        /\ continueOnFail[r] /\ pc[r] = "returned" /\ items[r] = 3
        /\ Len(returned[r].main) = 3
        /\ ~returned[r].main[1].error
        /\ returned[r].main[2].error
        /\ ~returned[r].main[3].error

\* C4: with continueOnFail = false the first item that fails aborts the
\* run: no later item is processed or dispatched, the item's error is
\* raised to the caller and the outcomes of the earlier items are not
\* returned.
C4_FailFastAborts ==
    \A r \in Runs :
        (~continueOnFail[r] /\ failed[r] # {})
           => /\ pc[r] \in {"catch", "finally", "raised"}
              /\ \A f \in failed[r] :
                    /\ f.item = i[r]
                    /\ \A k \in Dispatched(r) : k <= f.item
                    /\ pc[r] = "raised" => thrown[r] = f.msg
              /\ Len(results[r]) = i[r] - 1
              /\ ~returned[r].done

\* C4 witness: the second of three items failed; the run has raised, the
\* first item's outcome is not returned and the third was never reached.
C4_Witness ==
    \E r \in Runs :
        /\ ~continueOnFail[r] /\ pc[r] = "raised" /\ itemsToProcess[r] = 3
        /\ i[r] = 2 /\ Len(results[r]) = 1 /\ thrown[r] = "QueryError"
        /\ ~returned[r].done

\* C5: a run that created its pool created it once and, when it has
\* ended, whether by returning or by raising, has closed it exactly once;
\* it never closes it more than once.
C5_PoolClosedExactlyOnce ==
    \A r \in Runs :
        /\ poolCreated[r] <= 1
        /\ poolEnded[r] <= poolCreated[r]
        /\ (Terminal(r) /\ poolCreated[r] = 1) => poolEnded[r] = 1
        /\ (pc[r] \in {"loop", "await", "catch", "finally"})
              => (poolCreated[r] = 1 /\ poolEnded[r] = 0)

\* C5 witness: a run aborted by a failing item has closed its pool once.
C5_Witness ==
    \E r \in Runs :
        /\ pc[r] = "raised" /\ failed[r] # {}
        /\ poolCreated[r] = 1 /\ poolEnded[r] = 1

\* C6 (as claimed): whatever the settings are, also when continueOnFail
\* is not set, the failure of an item does not make the run fail: a run
\* raises only for want of credentials, never because an item failed.
C6_ItemFailureNeverFailsRun ==
    \A r \in Runs :
        pc[r] = "raised" => (failed[r] = {} /\ poolCreated[r] = 0)

\* C7 (as claimed): an unknown operation tag aborts the run for both
\* values of continueOnFail: no outcome is recorded for an item and the
\* run does not return.
C7_UnknownOperationAlwaysAborts ==
    \A r \in Runs :
        operation[r] = "bogus" => (results[r] = <<>> /\ pc[r] # "returned")

\* C7 (amended): an unknown operation tag is met in the item loop, after
\* the pool is created, and no query is dispatched for it.  With
\* continueOnFail = false the run aborts at the first item, raises
\* "Unknown operation" and returns no outcomes; with continueOnFail = true
\* every item yields an error outcome and the run returns them.
C7_UnknownOperationIsAnItemFailure ==
    \A r \in Runs :
        operation[r] = "bogus"
           => /\ poolCreated[r] = 1
              /\ dispatched[r] = <<>>
              /\ \A k \in DOMAIN results[r] :
                    /\ results[r][k].error
                    /\ results[r][k].errorMessage = "Unknown operation"
              /\ ~continueOnFail[r]
                   => /\ results[r] = <<>> /\ i[r] = 1
                      /\ pc[r] # "returned" /\ ~returned[r].done
                      /\ pc[r] = "raised" => thrown[r] = "Unknown operation"
              /\ continueOnFail[r]
                   => /\ pc[r] # "raised"
                      /\ pc[r] = "returned"
                           => /\ returned[r].main = results[r]
                              /\ Len(returned[r].main) = itemsToProcess[r]

\* C7 witness: with continueOnFail = true a run of three items with an
\* unknown operation tag has returned three error outcomes.
C7_Witness ==
    \E r \in Runs :
        /\ operation[r] = "bogus" /\ continueOnFail[r] /\ pc[r] = "returned"
        /\ Len(returned[r].main) = 3
        /\ \A k \in 1..3 : returned[r].main[k].error

\* C8: when getCredentials gives nothing usable (it throws, returns
\* nothing, or gives no host) the run raises before any item, for both
\* values of continueOnFail: no pool, no query, no outcome.
C8_CredentialErrorBeforeAnyItem ==
    \A r \in Runs :
        credentials[r] \in {"throws", "null", "nohost"}
           => /\ pc[r] = "raised"
              /\ thrown[r] = "Failed to get credentials"
              /\ poolCreated[r] = 0 /\ poolEnded[r] = 0
              /\ dispatched[r] = <<>> /\ results[r] = <<>> /\ failed[r] = {}
              /\ i[r] = 0
              /\ ~returned[r].done

\* C8 witness: with continueOnFail = true and credentials without a host
\* the run has raised.
C8_Witness ==
    \E r \in Runs :
        /\ credentials[r] = "nohost" /\ continueOnFail[r] /\ pc[r] = "raised"
        /\ items[r] >= 1

\* The statement text holds a LIMIT clause.
HasLimit(sql) == "LIMIT" \in Range(sql)

\* Of the limit values of the model, the positive integers.
PositiveInteger(limit) == limit \in {"10"}

\* C9 (as claimed): for a Select, LIMIT is in the statement iff returnAll
\* is false, and with returnAll false a limit that is no positive integer
\* makes the item fail before any query is dispatched.
C9_LimitValidated ==
    \A r \in Runs :
        (operation[r] = "select" /\ AtItem(r))
           => /\ HasLimit(queryText[r]) <=> ~cur[r].returnAll
              /\ (~cur[r].returnAll /\ ~PositiveInteger(cur[r].limit))
                    => (pc[r] = "catch" /\ i[r] \notin Dispatched(r))

\* C9 (amended): for a Select, LIMIT n is in the statement iff returnAll
\* is false and the limit is truthy (present and not 0), n being the limit
\* as given; the limit is never validated: whatever it is, the item's
\* statement is dispatched, and only the driver can make the item fail.
C9_LimitAppendedWhenTruthy ==
    \A r \in Runs :
        (operation[r] = "select" /\ AtItem(r))
           => /\ HasLimit(queryText[r])
                   <=> (~cur[r].returnAll /\ cur[r].limit \notin {"undefined", "0"})
              /\ HasLimit(queryText[r])
                   => /\ queryText[r][Len(queryText[r]) - 1] = "LIMIT"
                      /\ queryText[r][Len(queryText[r])] = cur[r].limit
              /\ i[r] \in Dispatched(r)
              /\ pc[r] = "catch" => err[r] = "QueryError"

\* C9 witness: a Select with returnAll false and limit 0 is with the
\* driver, without a LIMIT clause.
C9_Witness ==
    \E r \in Runs :
        /\ operation[r] = "select" /\ pc[r] = "await"
        /\ ~cur[r].returnAll /\ cur[r].limit = "0"
        /\ ~HasLimit(queryText[r])

\* The statement with the driver satisfies the BuiltStatement invariant:
\* its placeholders are exactly $1..$K, K the length of its params.
Aligned(r) == Placeholders(queryText[r]) = 1..Len(queryParams[r])

\* C10 (as claimed): every statement handed to the driver has exactly the
\* placeholders $1..$K with K the length of its params.
C10_EveryStatementAligned ==
    \A r \in Runs : pc[r] = "await" => Aligned(r)

\* The entries of the column map of the current item that are written.
Written(r) ==
    SelectSeq(cur[r].columnsMap.entries,
              LAMBDA e : e.v \notin {"", "null", "undefined"})

\* The text the caller wrote into the statement with the driver.
CallerText(r) ==
    CASE operation[r] = "executeQuery" -> cur[r].query
      [] operation[r] = "select" -> cur[r].where \o cur[r].orderBy
      [] OTHER -> cur[r].where

\* C10 (amended): the placeholders the code generates are aligned: those
\* of an Insert are exactly $1..$N for its N params, and the SET clause of
\* an Update holds exactly $1..$N, bound to the first N of its N + M
\* params.  The text the caller writes (raw query, where, order by) is
\* not checked against the parameters: the statement handed to the driver
\* satisfies the invariant exactly when that text uses every placeholder
\* $N+1..$N+M and none above $N+M (N = 0 but for Update).
C10_GeneratedPlaceholdersAligned ==
    \A r \in Runs :
        pc[r] = "await"
           => LET N == IF operation[r] \in {"insert", "update"}
                       THEN Len(Written(r)) ELSE 0
                  K == Len(queryParams[r])
                  ByCaller == Placeholders(CallerText(r))
              IN /\ K >= N
                 /\ operation[r] = "insert" => (N >= 1 /\ K = N /\ Aligned(r))
                 /\ operation[r] = "update"
                      => /\ N >= 1
                         /\ Placeholders(SubSeq(queryText[r], 1, 3 + 4 * N - 1))
                               = 1..N
                         /\ queryText[r][3 + 4 * N] = "WHERE"
                 /\ Aligned(r)
                      <=> ((N + 1)..K \subseteq ByCaller /\ ByCaller \subseteq 1..K)

\* C10 witness: an Update of two columns whose where text is numbered
\* after the SET clause is with the driver, aligned with its three params.
C10_Witness ==
    \E r \in Runs :
        /\ operation[r] = "update" /\ pc[r] = "await"
        /\ Len(Written(r)) = 2 /\ Len(queryParams[r]) = 3
        /\ cur[r].where = <<"id", "=", "$3">>
        /\ Aligned(r)

\* Where texts written as in the README (Example 3) and in the placeholder
\* of the Where Clause field: placeholders numbered from $1.
ReadmeWhereTexts ==
    { <<"id", "=", "$1">>, <<"a", "=", "$1", "AND", "b", "=", "$2">> }

\* C11 (as claimed): for an Update whose where text numbers its
\* placeholders from $1, the value bound to the where placeholder $k is
\* the k-th where parameter.
C11_WherePlaceholderBoundToWhereParam ==
    \A r \in Runs :
        (operation[r] = "update" /\ pc[r] = "await"
          /\ cur[r].where \in ReadmeWhereTexts)
           => LET whereParams == ParseParams(cur[r].whereParams)
              IN \A k \in Placeholders(cur[r].where) :
                    k <= Len(whereParams)
                       => (k <= Len(queryParams[r])
                            /\ queryParams[r][k] = whereParams[k])

\* The number of items of run r whose processing has begun.
Begun(r) ==
    IF pc[r] \in {"idle", "setup", "off"} \/ poolCreated[r] = 0 THEN 0
    ELSE IF AtItem(r) THEN i[r]
    ELSE IF pc[r] \in {"finally", "raised"} /\ err[r] # NoError THEN i[r]
    ELSE i[r] - 1

\* The items of run r that failed before a statement was built.
FailedToBuild(r) == {f.item : f \in {g \in failed[r] : g.msg # "QueryError"}}

\* C12 (as claimed): when the input is empty the run dispatches exactly
\* one statement and, unless it aborts, returns exactly one outcome; when
\* the input has n >= 1 items no item is added.
C12_EmptyInputDispatchesOnce ==
    \A r \in Runs :
        /\ (items[r] = 0 /\ pc[r] = "returned")
              => (Len(dispatched[r]) = 1 /\ Len(returned[r].main) = 1)
        /\ (items[r] >= 1 /\ pc[r] \notin {"idle", "off"})
              => itemsToProcess[r] = items[r]

\* C12 (amended): when the input is empty exactly one empty item is
\* processed: the run builds one statement and dispatches it, or fails to
\* build it and dispatches nothing, and unless it aborts it returns
\* exactly one outcome; when the input has n >= 1 items no item is added:
\* n items are processed and n outcomes returned.
C12_EmptyInputProcessesOneItem ==
    \A r \in Runs :
        LET n == IF items[r] = 0 THEN 1 ELSE items[r]
        IN /\ pc[r] \notin {"idle", "off"} => itemsToProcess[r] = n
           /\ Begun(r) <= n
           /\ Len(dispatched[r]) + Cardinality(FailedToBuild(r)) = Begun(r)
           /\ Dispatched(r) \cap FailedToBuild(r) = {}
           /\ pc[r] = "returned"
                => (Begun(r) = n /\ Len(returned[r].main) = n)

\* C12 witness: a run with no input item has returned one outcome, the
\* error record of the one item, for which nothing was dispatched.
C12_Witness ==
    \E r \in Runs :
        /\ items[r] = 0 /\ pc[r] = "returned"
        /\ Len(returned[r].main) = 1 /\ returned[r].main[1].error
        /\ dispatched[r] = <<>>

\* The items of run r whose query has been answered or rejected.
Answered(r) ==
    {k \in Dispatched(r) :
        \/ \E f \in failed[r] : f.item = k
        \/ \E j \in DOMAIN results[r] :
              /\ ~results[r][j].error
              /\ results[r][j].data \in DOMAIN dispatched[r]
              /\ dispatched[r][results[r][j].data] = k}

\* The queries of run r that are with the driver.
InFlight(r) == Dispatched(r) \ Answered(r)

\* C17: the items of a run are processed one after the other in input
\* order: at most one query of the run is in flight, and the query of an
\* item is dispatched only when those of all earlier items are answered.
C17_OneQueryInFlight ==
    \A r \in Runs :
        /\ Cardinality(InFlight(r)) <= 1
        /\ InFlight(r) # {} <=> pc[r] = "await"
        /\ \A a, b \in DOMAIN dispatched[r] :
              a < b => dispatched[r][a] < dispatched[r][b]
        /\ \A k \in InFlight(r) :
              \A j \in Dispatched(r) : j # k => (j < k /\ j \in Answered(r))

\* C17 witness: the query of the third item is in flight, those of the
\* first two are answered.
C17_Witness ==
    \E r \in Runs :
        /\ pc[r] = "await" /\ InFlight(r) = {3}
        /\ Answered(r) = {1, 2}

\* How often item k of run r was handed to the driver.
Dispatches(r, k) ==
    Cardinality({j \in DOMAIN dispatched[r] : dispatched[r][j] = k})

\* C18: no query is tried again: at most one query is dispatched for an
\* input item, for both values of continueOnFail, and an item whose query
\* failed is left behind by the loop.
C18_NoRetry ==
    \A r \in Runs :
        /\ \A k \in 1..(MaxItems + 1) : Dispatches(r, k) <= 1
        /\ Len(dispatched[r]) <= itemsToProcess[r]
        /\ \A f \in failed[r] :
              /\ Dispatches(r, f.item) = (IF f.msg = "QueryError" THEN 1 ELSE 0)
              /\ pc[r] \in {"loop", "await"} => i[r] > f.item

\* C18 witness: with continueOnFail = true the query of the first item
\* failed and the loop is at the second item; one query was dispatched
\* for the first.
C18_Witness ==
    \E r \in Runs :
        /\ continueOnFail[r] /\ pc[r] = "await" /\ i[r] = 2
        /\ [item |-> 1, msg |-> "QueryError"] \in failed[r]
        /\ Dispatches(r, 1) = 1

\* C20: an Insert whose filtered map has N >= 1 entries lists exactly
\* those N column names, each in double quotes, in the order of the map,
\* with the placeholders $1..$N, and params holds the N values in the
\* same order; the entries whose value is null, undefined or the empty
\* string are left out, all others (0 and false too) are in.
C20_InsertListsWrittenColumns ==
    \A r \in Runs :
        (operation[r] = "insert" /\ pc[r] = "await")
           => LET W == Written(r)
                  N == Len(W)
                  q == queryText[r]
              IN /\ N >= 1
                 /\ Len(q) = 4 * N + 7
                 /\ SubSeq(q, 1, 3) = <<"INSERT INTO", cur[r].table, "(">>
                 /\ \A j \in 1..N :
                       /\ q[3 + 2 * j - 1] = "\"" \o W[j].k \o "\""
                       /\ q[2 * N + 5 + 2 * j - 1] = "$" \o ToString(j)
                       /\ queryParams[r][j] = W[j].v
                 /\ \A j \in 1..(N - 1) :
                       q[3 + 2 * j] = "," /\ q[2 * N + 5 + 2 * j] = ","
                 /\ SubSeq(q, 2 * N + 3, 2 * N + 5) = <<")", "VALUES", "(">>
                 /\ SubSeq(q, 4 * N + 5, 4 * N + 7) = <<")", "RETURNING", "*">>
                 /\ Len(queryParams[r]) = N
                 /\ Placeholders(q) = 1..N

\* C20 witness: an Insert of the map {email: false, name: 0} is with the
\* driver, email listed first.
C20_Witness ==
    \E r \in Runs :
        /\ operation[r] = "insert" /\ pc[r] = "await"
        /\ cur[r].columnsMap.entries
             = <<[k |-> "email", v |-> "false"], [k |-> "name", v |-> "0"]>>
        /\ queryParams[r] = <<"false", "0">>
        /\ queryText[r][4] = "\"email\"" /\ queryText[r][6] = "\"name\""

\* One turn of the loop whose item reads representative parameters.
BuildItemPlain(r) ==
    /\ pc[r] = "loop"
    /\ \E p \in InputsOver(operation[r], LaterItemDomain) : BuildItemWith(r, p)

\* The steps of the runs all of whose items read representative parameters.
NextPlain ==
    \E r \in Runs :
        \/ Execute(r)
        \/ Setup(r)
        \/ BuildItemPlain(r)
        \/ QueryResolves(r)
        \/ QueryRejects(r)
        \/ ItemCatch(r)
        \/ Finally(r)

\* Those runs under the scheduling of the event loop: every driver call is
\* answered or rejected and every continuation that is ready runs.
FairSpec == Init /\ [][NextPlain]_vars /\ WF_vars(NextPlain)

\* Running: the pool exists and the run has not ended.
Running(r) == pc[r] \in {"loop", "await", "catch", "finally"}

\* C19: a run that is Running with continueOnFail = true ends in
\* Completed; it is never Aborted. Completed and Aborted are terminal, and
\* a Running run is Aborted only with continueOnFail = false after an item
\* failed.
C19_ContinueOnFailCompletes ==
    /\ \A r \in Runs :
          (Running(r) /\ continueOnFail[r]) ~> (pc[r] = "returned")
    /\ [](\A r \in Runs :
            /\ (poolCreated[r] = 1 /\ continueOnFail[r]) => pc[r] # "raised"
            /\ (poolCreated[r] = 1 /\ pc[r] = "raised")
                  => (~continueOnFail[r] /\ failed[r] # {}))
    /\ [][\A r \in Runs : Terminal(r) => pc'[r] = pc[r]]_vars

\* C19 witness: a run with continueOnFail = true in which items failed has
\* Completed.
C19_Witness ==
    \E r \in Runs :
        /\ continueOnFail[r] /\ pc[r] = "returned"
        /\ Cardinality(failed[r]) >= 2
        /\ poolEnded[r] = 1

\* The message test() gives for an error without a known code.
GenericMessage(e) ==
    "Connection failed: " \o (IF e.message # "" THEN e.message ELSE "Unknown error")

\* The codes of the errors the driver can reject a query with.
AllCodes == {e.code : e \in QueryFailures}

\* C16: the connection test never raises. With host, database, user or
\* password missing it returns success = false and neither creates a pool
\* nor dispatches a query. When the connection or the query fails it
\* returns success = false, with a message of its own for each of the
\* seven known codes and the generic message for any other error.
C16_TestNeverRaises ==
    /\ ~test.raised /\ test.pc # "raised"
    /\ (test.pc # "idle" /\ test.pc # "off"
          /\ \E f \in {"host", "database", "user", "password"} :
                test.data[f] \in {"undefined", ""})
          => /\ test.pc = "done" /\ ~test.result.success
             /\ test.pools = 0 /\ test.queries = 0 /\ test.ends = 0
    /\ (test.pc = "done" /\ test.error # NoFailure)
          => /\ ~test.result.success
             /\ test.error.code \in KnownCodes
                   => /\ test.result.message # GenericMessage(test.error)
                      /\ \A c \in AllCodes \ {test.error.code} :
                            test.result.message
                               # FailureMessage([test.error EXCEPT !.code = c],
                                                test.data)
             /\ test.error.code \notin KnownCodes
                   => test.result.message = GenericMessage(test.error)

\* C16 witness: the query was rejected with 28000 and the test returned
\* the message of that code.
C16_Witness ==
    /\ test.pc = "done" /\ test.error.code = "28000"
    /\ test.queries = 1 /\ ~test.result.success
    /\ test.result.message
         = "Authorization failed. User does not have access to this database."

\* The calls of the option loader that have returned or raised.
Calls ==
    Range(load.history)
       \cup (IF load.pc \in {"done", "raised"} THEN {Summary(load)} ELSE {})

\* The call could not use the credentials, or its catalog query failed.
LoadFailed(call) ==
    call.credentials \in {"throws", "null", "nohost"} \/ call.error # ""

\* The names of the diagnostic options of getTables.
DiagnosticNames ==
    {"No credentials selected", "Error: Credentials required",
     "Error loading tables - check credentials"}

\* C13 (as claimed): getTables and getColumnsForMap never raise; when the
\* credentials are unavailable or the catalog query fails they return,
\* and the sequence they return is empty.
C13_LoadersReturnEmptyOnFailure ==
    \A call \in Calls :
        /\ ~call.raised
        /\ LoadFailed(call) => call.out = <<>>

\* C13 (amended): getTables and getColumnsForMap never raise; when the
\* credentials are unavailable or the catalog query fails they return:
\* getColumnsForMap the empty sequence, getTables a sequence of one
\* option that has an empty value and names the failure.
C13_LoadersReturnOnFailure ==
    /\ ~load.raised /\ load.pc # "raised"
    /\ \A call \in Calls :
          /\ ~call.raised
          /\ (LoadFailed(call) /\ call.method = "getColumnsForMap")
                => call.out = <<>>
          /\ (LoadFailed(call) /\ call.method = "getTables")
                => /\ Len(call.out) = 1
                   /\ call.out[1].value = ""
                   /\ call.out[1].name \in DiagnosticNames

\* C13 witness: the catalog query of getTables was rejected and the call
\* returned the one option that says so.
C13_Witness ==
    /\ load.pc = "done" /\ load.method = "getTables"
    /\ load.error = "driver error" /\ load.ends = 1
    /\ load.out = <<Diagnostic("Error loading tables - check credentials",
                               "driver error")>>

\* C14: getColumnsForMap called with an empty or absent table returns the
\* empty sequence and neither reads the credentials, nor creates a pool,
\* nor dispatches a query; a repeated call does the same.
C14_NoTableNoWork ==
    /\ (load.method = "getColumnsForMap" /\ load.table \in {"undefined", ""})
          => /\ load.pc \in {"idle", "done"}
             /\ load.credentials = "unread" /\ load.pools = 0
             /\ load.queries = <<>> /\ load.ends = 0 /\ load.out = <<>>
    /\ \A call \in Calls :
          (call.method = "getColumnsForMap" /\ call.table \in {"undefined", ""})
             => /\ call.out = <<>> /\ ~call.raised
                /\ call.credentials = "unread" /\ call.pools = 0
                /\ call.queries = <<>> /\ call.ends = 0

\* C14 witness: getColumnsForMap has returned twice for the empty table.
C14_Witness ==
    /\ load.method = "getColumnsForMap" /\ load.table = ""
    /\ load.pc = "done" /\ Len(load.history) = 1
    /\ load.history[1].out = <<>> /\ load.out = <<>>

\* The ssl option of the pool for the settings value s and the
\* credentials value c, as the precedence rule has it.
SslByPrecedence(s, c) ==
    LET flag == IF s \in {"true", "false"} THEN s
                ELSE IF c \in {"true", "false"} THEN c
                ELSE "false"
    IN IF flag = "true" THEN "rejectUnauthorized:false" ELSE "false"

\* C15: the pool is created with the ssl value of the settings whenever
\* the settings supply one (an explicit false overrides credentials.ssl =
\* true), else with that of the credentials, else without ssl; execute,
\* getTables and getColumnsForMap follow the same precedence.
C15_SslPrecedence ==
    /\ \A r \in Runs :
          poolCreated[r] >= 1
             => ssl[r].pool = SslByPrecedence(ssl[r].setting, ssl[r].credential)
    /\ load.pools >= 1
          => load.ssl.pool = SslByPrecedence(load.ssl.setting,
                                             load.ssl.credential)
    /\ \A r \in Runs : poolCreated[r] = 0 => ssl[r].pool = "none"
    /\ load.pools = 0 => load.ssl.pool = "none"

\* C15 witness: execute has created its pool without ssl, the settings
\* saying false and the credentials true.
C15_Witness ==
    \E r \in Runs :
        /\ poolCreated[r] = 1
        /\ ssl[r] = [setting |-> "false", credential |-> "true", pool |-> "false"]

\* The values written in a comma separated parameter string, each without
\* the white space around it: the text between two neighbouring commas (or
\* an end of the string), from its first to its last character that is no
\* blank.
WrittenValues(s) ==
    LET commas == {j \in 1..Len(s) : s[j] = ","}
        M == IF s = <<>> THEN 0 ELSE Cardinality(commas) + 1
        comma(m) == IF m = 0 THEN 0
                    ELSE IF m = M THEN Len(s) + 1
                    ELSE CHOOSE c \in commas :
                            Cardinality({d \in commas : d < c}) = m - 1
        value(m) ==
            LET inside == {j \in (comma(m - 1) + 1)..(comma(m) - 1) : s[j] # " "}
            IN IF inside = {} THEN ""
               ELSE LET first == CHOOSE j \in inside : \A k \in inside : j <= k
                        last == CHOOSE j \in inside : \A k \in inside : j >= k
                    IN Str(SubSeq(s, first, last))
    IN [m \in 1..M |-> value(m)]

\* C21: for an Update whose filtered map has N >= 1 entries and whose
\* where parameters hold M values, the SET clause lists the N columns in
\* map order with the placeholders $1..$N, and params has length N + M:
\* the N SET values in map order, then the M where values, trimmed, in
\* the order they are written.
C21_UpdateParamsOrder ==
    \A r \in Runs :
        (operation[r] = "update" /\ pc[r] = "await")
           => LET W == Written(r)
                  N == Len(W)
                  V == WrittenValues(cur[r].whereParams)
                  M == Len(V)
                  q == queryText[r]
              IN /\ N >= 1
                 /\ SubSeq(q, 1, 3) = <<"UPDATE", cur[r].table, "SET">>
                 /\ \A j \in 1..N :
                       /\ q[4 * j] = "\"" \o W[j].k \o "\""
                       /\ q[4 * j + 1] = "="
                       /\ q[4 * j + 2] = "$" \o ToString(j)
                       /\ j > 1 => q[4 * j - 1] = ","
                 /\ q[4 * N + 3] = "WHERE"
                 /\ Len(queryParams[r]) = N + M
                 /\ \A j \in 1..N : queryParams[r][j] = W[j].v
                 /\ \A m \in 1..M : queryParams[r][N + m] = V[m]

\* C21 witness: an Update of two columns with the where parameters "7,"
\* is with the driver: four params, the two SET values, then 7 and the
\* empty value after the comma.
C21_Witness ==
    \E r \in Runs :
        /\ operation[r] = "update" /\ pc[r] = "await"
        /\ Len(Written(r)) = 2
        /\ cur[r].whereParams = <<"7", ",">>
        /\ Len(queryParams[r]) = 4
        /\ queryParams[r][3] = "7" /\ queryParams[r][4] = ""

\* C26: the statement of a Select holds a WHERE clause, the where text
\* right after the table, iff the where text is not empty; with an empty
\* where text params is empty whatever where parameters were supplied, and
\* with a where text params holds the where values.
C26_SelectWhereAndParams ==
    \A r \in Runs :
        (operation[r] = "select" /\ pc[r] = "await")
           => LET q == queryText[r]
                  w == cur[r].where
              IN /\ ("WHERE" \in Range(q)) <=> (w # <<>>)
                 /\ w # <<>>
                      => /\ q[5] = "WHERE"
                         /\ SubSeq(q, 6, 5 + Len(w)) = w
                         /\ queryParams[r] = WrittenValues(cur[r].whereParams)
                 /\ w = <<>> => queryParams[r] = <<>>

\* C26 witness: a Select without where text, but with where parameters,
\* is with the driver: no WHERE in the statement and no params.
C26_Witness ==
    \E r \in Runs :
        /\ operation[r] = "select" /\ pc[r] = "await"
        /\ cur[r].where = <<>> /\ cur[r].whereParams = <<"7", ",">>
        /\ queryParams[r] = <<>>
        /\ "WHERE" \notin Range(queryText[r])

\* C23: no query of a run is dispatched on its pool after the pool was
\* closed, and when the run returns its outcomes or raises its error the
\* pool it created is closed already.
C23_ClosedBeforeVisible ==
    /\ [](\A r \in Runs :
            /\ (Terminal(r) /\ poolCreated[r] >= 1) => poolEnded[r] >= 1
            /\ (returned[r].done \/ (thrown[r] # NoError /\ poolCreated[r] >= 1))
                  => poolEnded[r] >= 1
            /\ poolEnded[r] >= 1 => (Terminal(r) /\ InFlight(r) = {}))
    /\ [][\A r \in Runs :
            poolEnded[r] >= 1
               => (dispatched'[r] = dispatched[r] /\ poolEnded'[r] = poolEnded[r])]_vars

\* C23 witness: a run has raised the error of its second item; its first
\* query was answered and its pool is closed.
C23_Witness ==
    \E r \in Runs :
        /\ pc[r] = "raised" /\ thrown[r] = "QueryError"
        /\ dispatched[r] = <<1, 2>>
        /\ poolCreated[r] = 1 /\ poolEnded[r] = 1

\* Two calls of execute that overlap in time, their steps interleaved in
\* any order.
SpecPair == InitPair /\ [][NextPlain]_vars

\* What run r owns: its pool and what it hands to its caller.
Owned(r) ==
    <<results[r], returned[r], thrown[r], poolCreated[r], poolEnded[r],
      dispatched[r], failed[r]>>

\* C22: runs that execute concurrently each create and close their own
\* pool only and append to their own outcome list only: whatever the
\* interleaving, a step of one run (an abort and a pool close among them)
\* neither closes the pool of another run nor adds, removes or changes an
\* outcome of another run.
C22_RunsAreIndependent ==
    /\ [][\E a \in Runs : \A r \in Runs \ {a} :
             pc'[r] = pc[r] /\ Owned(r)' = Owned(r)]_vars
    /\ [][\A r \in Runs :
             \/ results'[r] = results[r]
             \/ /\ Len(results'[r]) = Len(results[r]) + 1
                /\ SubSeq(results'[r], 1, Len(results[r])) = results[r]]_vars
    /\ [](\A r \in Runs :
            /\ poolCreated[r] <= 1 /\ poolEnded[r] <= poolCreated[r]
            /\ poolEnded[r] = 1 => Terminal(r)
            /\ returned[r].done => returned[r].main = results[r])

\* C22 witness: run 1 was aborted by its query and its pool is closed,
\* while the query of run 2 is with the driver, on the open pool of run 2.
C22_Witness ==
    /\ pc[1] = "raised" /\ thrown[1] = "QueryError"
    /\ poolCreated[1] = 1 /\ poolEnded[1] = 1
    /\ pc[2] = "await" /\ dispatched[2] = <<1>>
    /\ poolCreated[2] = 1 /\ poolEnded[2] = 0

\* C24 (as claimed): the connection test, once it has created its pool,
\* ends it exactly once on every path: query failure, query success with
\* a version row, with no row, with a row that has no version.
C24_TestClosesPoolOnce ==
    /\ test.ends <= 1
    /\ (test.pc \in {"done", "raised"} /\ test.pools = 1) => test.ends = 1

\* C25: a call of getTables or getColumnsForMap that creates a pool
\* dispatches exactly one catalog query on it and ends the pool exactly
\* once before it returns, whether the query succeeds or fails; a call
\* that returns for missing credentials creates no pool.
C25_LoaderOneQueryOneEnd ==
    /\ load.pools <= 1 /\ load.ends <= load.pools
    /\ Len(load.queries) = load.pools
    /\ load.ends = 1 => load.pc = "done"
    /\ \A call \in Calls :
          /\ call.pools = 1
                => (Len(call.queries) = 1 /\ call.ends = 1 /\ ~call.raised)
          /\ call.credentials \in {"unread", "throws", "null", "nohost"}
                => (call.pools = 0 /\ call.queries = <<>> /\ call.ends = 0)
          /\ call.credentials = "ok" => call.pools = 1

\* C25 witness: the catalog query of getColumnsForMap for the table users
\* was rejected; the call has returned, one query dispatched, its pool
\* ended once.
C25_Witness ==
    /\ load.pc = "done" /\ load.method = "getColumnsForMap"
    /\ load.error = "driver error"
    /\ load.pools = 1 /\ load.ends = 1
    /\ Len(load.queries) = 1 /\ load.queries[1].params = <<"users">>

====
